---- MODULE Spec2Model ----
(***************************************************************************)
(* OneButton: click / double-click / long-press detection on one button.   *)
(* A model of src/OneButton.cpp: the object's fields, the constructor, the *)
(* setters, the attach operations and the state machine of tick().         *)
(***************************************************************************)
EXTENDS Integers, Sequences, FiniteSets, TLC

\* ------------------------------------------------------------------------
\* Bounds of the model
\* ------------------------------------------------------------------------

\* width, in bits, given to the unsigned long clock of the model
ClockBits == 11
\* number of samples remembered of the ticks that follow a press start
MaxSeq == 4
\* number of events remembered of one interaction
MaxLog == 5

ClockModulus == 2 ^ ClockBits

\* clock values millis() is read at (ms)
Times == {0, 50, 100, 150, 250, 251, 600, 601, 700, 750}
\* the same, for the runs that interleave every operation
CoarseTimes == {0, 300, 700}
\* arguments given to setClickTicks and setPressTicks (ms)
TicksValues == {100, 600}
\* callback functions of the sketch
Functions == {"f"}

\* ------------------------------------------------------------------------
\* Values
\* ------------------------------------------------------------------------

HIGH == "HIGH"
LOW == "LOW"
Levels == {LOW, HIGH}

NULL == "NULL"
\* value of a pointer field that no code has initialised
Indeterminate == "indeterminate"

\* event codes returned by tick(); 0 is "no event"
PRESSED_STATE == 1
CLICK_STATE == 2
DOUBLE_CLICK_STATE == 3
LONG_PRESS_START_STATE == 4
DURING_LONG_PRESS_STATE == 5
LONG_PRESS_STOP_STATE == 6

EventCodes == {0, PRESSED_STATE, CLICK_STATE, DOUBLE_CLICK_STATE,
               LONG_PRESS_START_STATE, DURING_LONG_PRESS_STATE,
               LONG_PRESS_STOP_STATE}

\* the values of _state the state machine uses
States == {0, 1, 2, 3, 6}

\* unsigned long addition
Plus(a, b) == (a + b) % ClockModulus

VARIABLES
  \* fields of the OneButton object
  state, startTime, isLongPressed, lastActivityTime,
  clickTicks, pressTicks, buttonPressed, buttonReleased,
  clickFunc, doubleClickFunc, pressFunc,
  longPressStartFunc, longPressStopFunc, duringLongPressFunc,
  \* the last tick: what it read, the state it found, what it returned, and
  \* the functions it called, in order
  now, level, pre, finalState, calls,
  \* history
  evlog,        \* events returned since the last Pressed, that one included
  seq,          \* samples of the ticks since the last press start
  pressTime,    \* clock of the last tick that returned Pressed
  releaseTime,  \* clock of the tick that moved _state from 1 to 2
  \* thresholds in force when the timer in flight (_state 1 or 2) was
  \* started; the current thresholds when no timer is in flight
  capClickTicks, capPressTicks,
  \* the constructor's call: its activeLow argument, and whether it wrote
  \* HIGH to the input pin, which turns the pull-up resistor on
  activeLow, pullUp,
  \* what isPressed() and isReleased() have returned so far: the function, the
  \* level the pin had, the result
  answers

fields == <<state, startTime, isLongPressed, lastActivityTime,
            clickTicks, pressTicks, buttonPressed, buttonReleased,
            clickFunc, doubleClickFunc, pressFunc,
            longPressStartFunc, longPressStopFunc, duringLongPressFunc>>
lasttick == <<now, level, pre, finalState, calls>>
history == <<evlog, seq, pressTime, releaseTime, capClickTicks, capPressTicks>>
pincfg == <<activeLow, pullUp>>
vars == <<fields, lasttick, history, pincfg, answers>>

\* the object, and the locals of tick(), as one record
Self ==
  [state |-> state, startTime |-> startTime, isLongPressed |-> isLongPressed,
   lastActivityTime |-> lastActivityTime,
   clickTicks |-> clickTicks, pressTicks |-> pressTicks,
   buttonPressed |-> buttonPressed, buttonReleased |-> buttonReleased,
   clickFunc |-> clickFunc, doubleClickFunc |-> doubleClickFunc,
   pressFunc |-> pressFunc, longPressStartFunc |-> longPressStartFunc,
   longPressStopFunc |-> longPressStopFunc,
   duringLongPressFunc |-> duringLongPressFunc,
   finalState |-> 0, calls |-> <<>>]

\* ------------------------------------------------------------------------
\* OneButton::OneButton(pin, activeLow)
\* ------------------------------------------------------------------------

Init ==
  /\ clickTicks = 250
  /\ pressTicks = 600
  /\ lastActivityTime = 0
  /\ state = 0
  /\ isLongPressed = FALSE
  /\ activeLow \in BOOLEAN
  /\ IF activeLow
       THEN buttonReleased = HIGH /\ buttonPressed = LOW /\ pullUp = TRUE
       ELSE buttonReleased = LOW /\ buttonPressed = HIGH /\ pullUp = FALSE
  /\ doubleClickFunc = NULL
  /\ pressFunc = NULL
  /\ longPressStartFunc = NULL
  /\ longPressStopFunc = NULL
  /\ duringLongPressFunc = NULL
  \* the constructor does not assign _clickFunc: an object in static storage
  \* has it zero, any other object has whatever the memory held.
  \* _startTime is not assigned either, and is written by tick() in _state 0
  \* before any path reads it
  /\ clickFunc \in {NULL, Indeterminate}
  /\ startTime = 0
  /\ answers = {}
  /\ now = 0
  /\ level = buttonReleased
  /\ pre = 0
  /\ finalState = 0
  /\ calls = <<>>
  /\ evlog = <<>>
  /\ seq = <<>>
  /\ pressTime = 0
  /\ releaseTime = 0
  /\ capClickTicks = 250
  /\ capPressTicks = 600

\* ------------------------------------------------------------------------
\* tick()
\* ------------------------------------------------------------------------

\* if (_xFunc) _xFunc();
invoke(r, slot) ==
  IF r[slot] # NULL
    THEN [r EXCEPT !.calls = Append(@, <<slot, r[slot]>>)]
    ELSE r

\* the long press detected one millisecond early
longPressReachedEarly(r, t) == t >= Plus(r.startTime, r.pressTicks)

\* the long press measured against the default, whatever setPressTicks set
longPressReachedDefault(r, t) == t > Plus(r.startTime, 600)

\* now > _startTime + _pressTicks
longPressReached(r, t) == t > Plus(r.startTime, r.pressTicks)

\* the click window closed one millisecond early
clickTimedOutEarly(r, t) == t >= Plus(r.startTime, r.clickTicks)

\* now > _startTime + _clickTicks
clickTimedOut(r, t) == t > Plus(r.startTime, r.clickTicks)

\* _state 0 with the starting time not remembered
tickState0KeepsStartTime(r, buttonLevel, t) ==
  IF buttonLevel = r.buttonPressed
    THEN [r EXCEPT !.state = 1, !.finalState = PRESSED_STATE]
    ELSE r

\* _state == 0: waiting for the button being pressed
tickState0(r, buttonLevel, t) ==
  IF buttonLevel = r.buttonPressed
    THEN [r EXCEPT !.state = 1, !.startTime = t, !.finalState = PRESSED_STATE]
    ELSE r

\* _state 1 with _isLongPressed not set when the long press starts
tickState1NoFlag(r, buttonLevel, t) ==
  IF buttonLevel = r.buttonReleased
    THEN [r EXCEPT !.state = 2]
    ELSE IF buttonLevel = r.buttonPressed /\ longPressReached(r, t)
      THEN LET r2 == invoke(r, "pressFunc")
               r3 == invoke(r2, "longPressStartFunc")
               r4 == invoke(r3, "duringLongPressFunc")
           IN  [r4 EXCEPT !.finalState = LONG_PRESS_START_STATE, !.state = 6]
      ELSE r

\* _state 1 with the long-press-start handler called before the press handler
tickState1StartFirst(r, buttonLevel, t) ==
  IF buttonLevel = r.buttonReleased
    THEN [r EXCEPT !.state = 2]
    ELSE IF buttonLevel = r.buttonPressed /\ longPressReached(r, t)
      THEN LET r1 == [r EXCEPT !.isLongPressed = TRUE]
               r2 == invoke(r1, "longPressStartFunc")
               r3 == invoke(r2, "pressFunc")
               r4 == invoke(r3, "duringLongPressFunc")
           IN  [r4 EXCEPT !.finalState = LONG_PRESS_START_STATE, !.state = 6]
      ELSE r

\* _state 1 with the click window restarted at the release
tickState1RestartsTimer(r, buttonLevel, t) ==
  IF buttonLevel = r.buttonReleased
    THEN [r EXCEPT !.state = 2, !.startTime = t]
    ELSE IF buttonLevel = r.buttonPressed /\ longPressReached(r, t)
      THEN LET r1 == [r EXCEPT !.isLongPressed = TRUE]
               r2 == invoke(r1, "pressFunc")
               r3 == invoke(r2, "longPressStartFunc")
               r4 == invoke(r3, "duringLongPressFunc")
           IN  [r4 EXCEPT !.finalState = LONG_PRESS_START_STATE, !.state = 6]
      ELSE r

\* _state 1 with the long press numbered 4, the state after 3
tickState1StepsTo4(r, buttonLevel, t) ==
  IF buttonLevel = r.buttonReleased
    THEN [r EXCEPT !.state = 2]
    ELSE IF buttonLevel = r.buttonPressed /\ longPressReached(r, t)
      THEN LET r1 == [r EXCEPT !.isLongPressed = TRUE]
               r2 == invoke(r1, "pressFunc")
               r3 == invoke(r2, "longPressStartFunc")
               r4 == invoke(r3, "duringLongPressFunc")
           IN  [r4 EXCEPT !.finalState = LONG_PRESS_START_STATE, !.state = 4]
      ELSE r

\* _state == 1: waiting for the button being released
tickState1(r, buttonLevel, t) ==
  IF buttonLevel = r.buttonReleased
    THEN [r EXCEPT !.state = 2]
    ELSE IF buttonLevel = r.buttonPressed /\ longPressReached(r, t)
      THEN LET r1 == [r EXCEPT !.isLongPressed = TRUE]
               r2 == invoke(r1, "pressFunc")
               r3 == invoke(r2, "longPressStartFunc")
               r4 == invoke(r3, "duringLongPressFunc")
           IN  [r4 EXCEPT !.finalState = LONG_PRESS_START_STATE, !.state = 6]
      ELSE r

\* _state 2 with the two checks swapped: the new press looked at first
tickState2PressFirst(r, buttonLevel, t) ==
  IF buttonLevel = r.buttonPressed
    THEN [r EXCEPT !.state = 3]
    ELSE IF clickTimedOut(r, t)
      THEN LET r1 == invoke(r, "clickFunc")
           IN  [r1 EXCEPT !.finalState = CLICK_STATE, !.state = 0]
      ELSE r

\* _state == 2: waiting for the button being pressed the second time, or timeout
tickState2(r, buttonLevel, t) ==
  IF clickTimedOut(r, t)
    THEN LET r1 == invoke(r, "clickFunc")
         IN  [r1 EXCEPT !.finalState = CLICK_STATE, !.state = 0]
    ELSE IF buttonLevel = r.buttonPressed
      THEN [r EXCEPT !.state = 3]
      ELSE r

\* _state 3 with the long-press branch of _state 1 copied into it
tickState3TimesOut(r, buttonLevel, t) ==
  IF buttonLevel = r.buttonReleased
    THEN LET r1 == invoke(r, "doubleClickFunc")
         IN  [r1 EXCEPT !.finalState = DOUBLE_CLICK_STATE, !.state = 0]
    ELSE IF longPressReached(r, t)
      THEN LET r1 == [r EXCEPT !.isLongPressed = TRUE]
               r2 == invoke(r1, "pressFunc")
               r3 == invoke(r2, "longPressStartFunc")
               r4 == invoke(r3, "duringLongPressFunc")
           IN  [r4 EXCEPT !.finalState = LONG_PRESS_START_STATE, !.state = 6]
      ELSE r

\* _state 3 with the step back to _state 0 left out
tickState3StaysPut(r, buttonLevel, t) ==
  IF buttonLevel = r.buttonReleased
    THEN LET r1 == invoke(r, "doubleClickFunc")
         IN  [r1 EXCEPT !.finalState = DOUBLE_CLICK_STATE]
    ELSE r

\* _state 3 with the click branch of _state 2 copied into it
tickState3FiresClick(r, buttonLevel, t) ==
  IF buttonLevel = r.buttonReleased
    THEN LET r1 == invoke(r, "clickFunc")
         IN  [r1 EXCEPT !.finalState = CLICK_STATE, !.state = 0]
    ELSE r

\* _state == 3: waiting for the button being released finally
tickState3(r, buttonLevel, t) ==
  IF buttonLevel = r.buttonReleased
    THEN LET r1 == invoke(r, "doubleClickFunc")
         IN  [r1 EXCEPT !.finalState = DOUBLE_CLICK_STATE, !.state = 0]
    ELSE r

\* _state 6 with the during-long-press handler called at the release too
tickState6StopCallsDuring(r, buttonLevel, t) ==
  IF buttonLevel = r.buttonReleased
    THEN LET r1 == [r EXCEPT !.isLongPressed = FALSE]
             r2 == invoke(r1, "duringLongPressFunc")
             r3 == invoke(r2, "longPressStopFunc")
         IN  [r3 EXCEPT !.finalState = LONG_PRESS_STOP_STATE, !.state = 0]
    ELSE LET r1 == [r EXCEPT !.isLongPressed = TRUE]
             r2 == invoke(r1, "duringLongPressFunc")
         IN  [r2 EXCEPT !.finalState = DURING_LONG_PRESS_STATE]

\* _state 6 with the flag left set at the release
tickState6KeepsFlag(r, buttonLevel, t) ==
  IF buttonLevel = r.buttonReleased
    THEN LET r2 == invoke(r, "longPressStopFunc")
         IN  [r2 EXCEPT !.finalState = LONG_PRESS_STOP_STATE, !.state = 0]
    ELSE LET r1 == [r EXCEPT !.isLongPressed = TRUE]
             r2 == invoke(r1, "duringLongPressFunc")
         IN  [r2 EXCEPT !.finalState = DURING_LONG_PRESS_STATE]

\* _state == 6: waiting for the button being released after a long press
tickState6(r, buttonLevel, t) ==
  IF buttonLevel = r.buttonReleased
    THEN LET r1 == [r EXCEPT !.isLongPressed = FALSE]
             r2 == invoke(r1, "longPressStopFunc")
         IN  [r2 EXCEPT !.finalState = LONG_PRESS_STOP_STATE, !.state = 0]
    ELSE LET r1 == [r EXCEPT !.isLongPressed = TRUE]
             r2 == invoke(r1, "duringLongPressFunc")
         IN  [r2 EXCEPT !.finalState = DURING_LONG_PRESS_STATE]

\* the activity time written by every tick
recordActivityAlways(r, t) == [r EXCEPT !.lastActivityTime = t]

\* if (finalState != 0) _lastActivityTime = now;
recordActivity(r, t) ==
  IF r.finalState # 0 THEN [r EXCEPT !.lastActivityTime = t] ELSE r

\* the body of tick() for the sample buttonLevel read at clock value t
tickBody(r, buttonLevel, t) ==
  LET r1 == IF r.state = 0 THEN tickState0(r, buttonLevel, t)
            ELSE IF r.state = 1 THEN tickState1(r, buttonLevel, t)
            ELSE IF r.state = 2 THEN tickState2(r, buttonLevel, t)
            ELSE IF r.state = 3 THEN tickState3(r, buttonLevel, t)
            ELSE IF r.state = 6 THEN tickState6(r, buttonLevel, t)
            ELSE r
  IN  recordActivity(r1, t)

\* the events of the interaction, after a tick that returned fs
logEvent(log, fs) ==
  IF fs = 0 THEN log
  ELSE IF fs = PRESSED_STATE THEN <<PRESSED_STATE>>
  ELSE IF fs = DURING_LONG_PRESS_STATE /\ Len(log) > 0
          /\ log[Len(log)] = DURING_LONG_PRESS_STATE THEN log
  ELSE IF Len(log) < MaxLog THEN Append(log, fs)
  ELSE log

\* the samples since the press start, after a tick that found _state = s
logSample(sq, s, pressed) ==
  IF s = 0 /\ pressed THEN <<"P">>
  ELSE IF sq = <<>> THEN <<>>
  ELSE IF Len(sq) < MaxSeq THEN Append(sq, IF pressed THEN "P" ELSE "R")
  ELSE <<>>

\* one call of tick() that reads buttonLevel from the pin and t from millis()
tickWith(buttonLevel, t) ==
  LET r == tickBody(Self, buttonLevel, t) IN
    /\ state' = r.state
    /\ startTime' = r.startTime
    /\ isLongPressed' = r.isLongPressed
    /\ lastActivityTime' = r.lastActivityTime
    /\ UNCHANGED <<clickTicks, pressTicks, buttonPressed, buttonReleased,
                   clickFunc, doubleClickFunc, pressFunc,
                   longPressStartFunc, longPressStopFunc,
                   duringLongPressFunc>>
    /\ UNCHANGED <<pincfg, answers>>
    /\ now' = t
    /\ level' = buttonLevel
    /\ pre' = state
    /\ finalState' = r.finalState
    /\ calls' = r.calls
    /\ evlog' = logEvent(evlog, r.finalState)
    /\ seq' = logSample(seq, state, buttonLevel = buttonPressed)
    /\ pressTime' = IF r.finalState = PRESSED_STATE THEN t ELSE pressTime
    /\ releaseTime' = IF state = 1 /\ r.state = 2 THEN t
                      ELSE IF state = 0 THEN 0 ELSE releaseTime
    /\ capClickTicks' = IF r.state \in {1, 2} THEN capClickTicks ELSE clickTicks
    /\ capPressTicks' = IF r.state \in {1, 2} THEN capPressTicks ELSE pressTicks

\* tick() at a clock value of T that is not before the last one read
tickAt(T) ==
  \E buttonLevel \in Levels, t \in {x \in T : x >= now} :
    tickWith(buttonLevel, t)

tick == tickAt(Times)

\* ------------------------------------------------------------------------
\* setters and attach operations
\* ------------------------------------------------------------------------

\* a setter or attach call reads neither the pin nor the clock and returns
\* nothing
called ==
  /\ UNCHANGED <<evlog, pressTime, releaseTime>>
  /\ UNCHANGED lasttick
  /\ UNCHANGED <<pincfg, answers>>

\* setClickTicks restarting the state machine
setClickTicksResets ==
  \E ticks \in TicksValues :
    /\ clickTicks' = ticks
    /\ state' = 0
    /\ UNCHANGED <<startTime, isLongPressed, lastActivityTime,
                   pressTicks, buttonPressed, buttonReleased,
                   clickFunc, doubleClickFunc, pressFunc,
                   longPressStartFunc, longPressStopFunc, duringLongPressFunc>>
    /\ called
    /\ seq' = IF ticks = clickTicks THEN seq ELSE <<>>
    /\ capClickTicks' = IF state \in {1, 2} THEN capClickTicks ELSE ticks
    /\ UNCHANGED capPressTicks

setClickTicks ==
  \E ticks \in TicksValues :
    /\ clickTicks' = ticks
    /\ UNCHANGED <<state, startTime, isLongPressed, lastActivityTime,
                   pressTicks, buttonPressed, buttonReleased,
                   clickFunc, doubleClickFunc, pressFunc,
                   longPressStartFunc, longPressStopFunc, duringLongPressFunc>>
    /\ called
    /\ seq' = IF ticks = clickTicks THEN seq ELSE <<>>
    /\ capClickTicks' = IF state \in {1, 2} THEN capClickTicks ELSE ticks
    /\ UNCHANGED capPressTicks

setPressTicks ==
  \E ticks \in TicksValues :
    /\ pressTicks' = ticks
    /\ UNCHANGED <<state, startTime, isLongPressed, lastActivityTime,
                   clickTicks, buttonPressed, buttonReleased,
                   clickFunc, doubleClickFunc, pressFunc,
                   longPressStartFunc, longPressStopFunc, duringLongPressFunc>>
    /\ called
    /\ seq' = IF ticks = pressTicks THEN seq ELSE <<>>
    /\ capPressTicks' = IF state \in {1, 2} THEN capPressTicks ELSE ticks
    /\ UNCHANGED capClickTicks

attachClick ==
  \E newFunction \in Functions \cup {NULL} :
    /\ clickFunc' = newFunction
    /\ UNCHANGED <<state, startTime, isLongPressed, lastActivityTime,
                   clickTicks, pressTicks, buttonPressed, buttonReleased,
                   doubleClickFunc, pressFunc,
                   longPressStartFunc, longPressStopFunc, duringLongPressFunc>>
    /\ called
    /\ UNCHANGED <<seq, capClickTicks, capPressTicks>>

attachDoubleClick ==
  \E newFunction \in Functions \cup {NULL} :
    /\ doubleClickFunc' = newFunction
    /\ UNCHANGED <<state, startTime, isLongPressed, lastActivityTime,
                   clickTicks, pressTicks, buttonPressed, buttonReleased,
                   clickFunc, pressFunc,
                   longPressStartFunc, longPressStopFunc, duringLongPressFunc>>
    /\ called
    /\ UNCHANGED <<seq, capClickTicks, capPressTicks>>

attachPress ==
  \E newFunction \in Functions \cup {NULL} :
    /\ pressFunc' = newFunction
    /\ UNCHANGED <<state, startTime, isLongPressed, lastActivityTime,
                   clickTicks, pressTicks, buttonPressed, buttonReleased,
                   clickFunc, doubleClickFunc,
                   longPressStartFunc, longPressStopFunc, duringLongPressFunc>>
    /\ called
    /\ UNCHANGED <<seq, capClickTicks, capPressTicks>>

attachLongPressStart ==
  \E newFunction \in Functions \cup {NULL} :
    /\ longPressStartFunc' = newFunction
    /\ UNCHANGED <<state, startTime, isLongPressed, lastActivityTime,
                   clickTicks, pressTicks, buttonPressed, buttonReleased,
                   clickFunc, doubleClickFunc, pressFunc,
                   longPressStopFunc, duringLongPressFunc>>
    /\ called
    /\ UNCHANGED <<seq, capClickTicks, capPressTicks>>

attachLongPressStop ==
  \E newFunction \in Functions \cup {NULL} :
    /\ longPressStopFunc' = newFunction
    /\ UNCHANGED <<state, startTime, isLongPressed, lastActivityTime,
                   clickTicks, pressTicks, buttonPressed, buttonReleased,
                   clickFunc, doubleClickFunc, pressFunc,
                   longPressStartFunc, duringLongPressFunc>>
    /\ called
    /\ UNCHANGED <<seq, capClickTicks, capPressTicks>>

attachDuringLongPress ==
  \E newFunction \in Functions \cup {NULL} :
    /\ duringLongPressFunc' = newFunction
    /\ UNCHANGED <<state, startTime, isLongPressed, lastActivityTime,
                   clickTicks, pressTicks, buttonPressed, buttonReleased,
                   clickFunc, doubleClickFunc, pressFunc,
                   longPressStartFunc, longPressStopFunc>>
    /\ called
    /\ UNCHANGED <<seq, capClickTicks, capPressTicks>>

\* tick() called at the clock values of the runs that interleave everything
tickCoarse == tickAt(CoarseTimes)

\* isPressed() with the level that digitalRead(_pin) returns
isPressed ==
  \E raw \in Levels :
    /\ answers' = answers \cup {<<"isPressed", raw, raw = buttonPressed>>}
    /\ UNCHANGED <<fields, lasttick, history, pincfg>>

\* isReleased() with the comparison of isPressed() copied
isReleasedComparesPressed ==
  \E raw \in Levels :
    /\ answers' = answers \cup {<<"isReleased", raw, raw = buttonPressed>>}
    /\ UNCHANGED <<fields, lasttick, history, pincfg>>

\* isReleased() with the level that digitalRead(_pin) returns
isReleased ==
  \E raw \in Levels :
    /\ answers' = answers \cup {<<"isReleased", raw, raw = buttonReleased>>}
    /\ UNCHANGED <<fields, lasttick, history, pincfg>>

Next ==
  \/ tickCoarse
  \/ setClickTicks
  \/ setPressTicks
  \/ attachClick
  \/ attachDoubleClick
  \/ attachPress
  \/ attachLongPressStart
  \/ attachLongPressStop
  \/ attachDuringLongPress

Spec == Init /\ [][Next]_vars

NextTiming ==
  \/ tick
  \/ setClickTicks
  \/ setPressTicks

\* a button in static storage, as the sketches declare it
InitStatic == Init /\ clickFunc = NULL

SpecTiming == InitStatic /\ [][NextTiming]_vars

\* clock values on both sides of the point where millis() wraps to 0
WrapTimes ==
  {0, 100, 300, 700} \cup
  {ClockModulus - 700, ClockModulus - 251, ClockModulus - 100,
   ClockModulus - 50, ClockModulus - 1}

\* the clock value of WrapTimes that follows n as the clock runs on and wraps
NextTime(n) ==
  LET later == {x \in WrapTimes : x > n}
      from == IF later = {} THEN WrapTimes ELSE later
  IN  CHOOSE x \in from : \A y \in from : x <= y

\* tick() called from loop(), the clock having moved on since the last call
tickWrap ==
  \E buttonLevel \in Levels : tickWith(buttonLevel, NextTime(now))

\* loop() calls tick() again and again while millis() runs on and wraps
SpecWrap == InitStatic /\ [][tickWrap]_vars /\ WF_vars(tickWrap)

NextAttach ==
  \/ tickCoarse
  \/ attachClick
  \/ attachDoubleClick
  \/ attachPress
  \/ attachLongPressStart
  \/ attachLongPressStop
  \/ attachDuringLongPress

\* ticks with the default thresholds, and the attach calls between them
SpecAttach == Init /\ [][NextAttach]_vars

NextPin ==
  \/ tickCoarse
  \/ isPressed
  \/ isReleased

\* ticks, and the two queries of the pin between them
SpecPin == Init /\ [][NextPin]_vars

\* ------------------------------------------------------------------------
\* Properties
\* ------------------------------------------------------------------------

\* the thresholds and the six handler slots: what the setters and the attach
\* operations assign, and tick() never does
config == <<clickTicks, pressTicks, clickFunc, doubleClickFunc, pressFunc,
            longPressStartFunc, longPressStopFunc, duringLongPressFunc>>

\* A step that changes a variable and leaves config alone is a call of tick():
\* a setter or attach call that assigns the value the field already has
\* changes nothing at all.
IsTickStep == UNCHANGED config

\* the number of times the event e was returned since the last Pressed
Count(log, e) == Cardinality({i \in DOMAIN log : log[i] = e})

\* C1: ticks that sample press, release, press, release from Idle, both
\* releases no later than click_window_ms after the tick that sampled the
\* first press, return Pressed, None, None, DoubleClick: one DoubleClick, no
\* Click, and the machine is back in Idle.
ThmC1 ==
  /\ seq = <<"P">> =>
       finalState = PRESSED_STATE /\ state = 1 /\ pressTime = now
  /\ seq = <<"P", "R">> /\ now <= pressTime + clickTicks =>
       finalState = 0 /\ state = 2 /\ evlog = <<PRESSED_STATE>>
  /\ seq = <<"P", "R", "P">> /\ now <= pressTime + clickTicks =>
       finalState = 0 /\ state = 3 /\ evlog = <<PRESSED_STATE>>
  /\ seq = <<"P", "R", "P", "R">> /\ now <= pressTime + clickTicks =>
       /\ finalState = DOUBLE_CLICK_STATE
       /\ state = 0
       /\ evlog = <<PRESSED_STATE, DOUBLE_CLICK_STATE>>

\* pressed@0, released@50, pressed@100, released@150 with the defaults
WitC1 ==
  /\ seq = <<"P", "R", "P", "R">>
  /\ clickTicks = 250 /\ pressTicks = 600
  /\ pressTime = 0 /\ releaseTime = 50 /\ now = 150
  /\ finalState = DOUBLE_CLICK_STATE
  /\ state = 0

\* C2: in _state 2 a tick that samples released returns Click, and goes to
\* Idle, exactly when its clock is past t0 + click_window_ms, and until then
\* returns nothing and waits; Click is the only event after the Pressed; _state
\* 2 is entered by the release of a press that did not become a long press;
\* released samples in Idle return nothing.
ThmC2 ==
  [][IsTickStep /\ level' = buttonReleased =>
       /\ state = 1 => state' = 2 /\ finalState' = 0 /\ evlog' = <<PRESSED_STATE>>
       /\ state = 2 =>
            IF now' > pressTime + clickTicks
              THEN /\ finalState' = CLICK_STATE
                   /\ state' = 0
                   /\ evlog = <<PRESSED_STATE>>
                   /\ evlog' = <<PRESSED_STATE, CLICK_STATE>>
              ELSE finalState' = 0 /\ state' = 2 /\ evlog' = <<PRESSED_STATE>>
       /\ state = 0 => state' = 0 /\ finalState' = 0 /\ evlog' = evlog]_vars

\* pressed@0, released, and the tick at 251 with the default window of 250
WitC2 ==
  /\ pre = 2 /\ level = buttonReleased
  /\ clickTicks = 250 /\ pressTime = 0 /\ now = 251
  /\ finalState = CLICK_STATE
  /\ state = 0
  /\ evlog = <<PRESSED_STATE, CLICK_STATE>>

\* C3: while the button is held, a tick in _state 1 returns LongPressStart
\* and enters _state 6 exactly when its clock is past t0 +
\* long_press_threshold_ms, and returns nothing before; every pressed tick in
\* _state 6 returns DuringLongPress; LongPressStart is returned by no other
\* tick, so once per hold; the released tick in _state 6 returns LongPressStop.
ThmC3 ==
  /\ [](Count(evlog, LONG_PRESS_START_STATE) <= 1)
  /\ [][IsTickStep =>
          /\ state = 1 /\ level' = buttonPressed =>
               IF now' > pressTime + pressTicks
                 THEN finalState' = LONG_PRESS_START_STATE /\ state' = 6
                 ELSE finalState' = 0 /\ state' = 1
          /\ state = 6 /\ level' = buttonPressed =>
               finalState' = DURING_LONG_PRESS_STATE /\ state' = 6
          /\ state = 6 /\ level' = buttonReleased =>
               finalState' = LONG_PRESS_STOP_STATE
          /\ finalState' = LONG_PRESS_START_STATE /\ ~UNCHANGED vars =>
               state = 1 /\ level' = buttonPressed]_vars

\* pressed from 0 with the default threshold of 600: the tick at 601
WitC3 ==
  /\ pre = 1 /\ level = buttonPressed
  /\ pressTicks = 600 /\ pressTime = 0 /\ now = 601
  /\ finalState = LONG_PRESS_START_STATE
  /\ state = 6

\* C4: in _state 6 a tick that samples released returns LongPressStop, calls
\* the long-press-stop handler once (nothing when the slot is empty), clears
\* _isLongPressed and goes to Idle; LongPressStop is returned only from
\* _state 6, which only LongPressStart enters.
ThmC4 ==
  [][IsTickStep =>
       /\ state = 6 /\ level' = buttonReleased =>
            /\ finalState' = LONG_PRESS_STOP_STATE
            /\ calls' = IF longPressStopFunc = NULL THEN <<>>
                        ELSE << <<"longPressStopFunc", longPressStopFunc>> >>
            /\ isLongPressed' = FALSE
            /\ state' = 0
            /\ Count(evlog', LONG_PRESS_STOP_STATE) = 1
       /\ finalState' = LONG_PRESS_STOP_STATE /\ ~UNCHANGED vars => state = 6
       /\ state' = 6 /\ state # 6 => finalState' = LONG_PRESS_START_STATE]_vars

WitC4 ==
  /\ pre = 6 /\ level = buttonReleased
  /\ finalState = LONG_PRESS_STOP_STATE
  /\ calls = << <<"longPressStopFunc", "f">> >>
  /\ isLongPressed = FALSE
  /\ state = 0

\* C5: _lastActivityTime is 0 until a tick returns an event; a tick that
\* returns an event sets it to the clock value it read, a tick that returns
\* nothing leaves it, and no other operation changes it.
ThmC5 ==
  /\ [](evlog = <<>> => lastActivityTime = 0)
  /\ [][/\ IsTickStep /\ finalState' # 0 => lastActivityTime' = now'
        /\ IsTickStep /\ finalState' = 0 => lastActivityTime' = lastActivityTime
        /\ ~IsTickStep => lastActivityTime' = lastActivityTime]_vars

\* a tick that returns nothing, later than the Pressed tick
WitC5 ==
  /\ state = 1 /\ pre = 1
  /\ finalState = 0
  /\ lastActivityTime = 50
  /\ now = 250

\* C6, as claimed: in _state 2 a pressed sample taken no later than
\* click_window_ms after the tick that sampled the release starts the second
\* press, and no Click is returned.
CexC6 ==
  [][IsTickStep /\ state = 2 /\ level' = buttonPressed
       /\ now' <= releaseTime + clickTicks =>
         state' = 3 /\ finalState' = 0]_vars

\* C6, amended: the window runs from the tick that sampled the first press.
\* In _state 2 a pressed sample at t <= t0 + click_window_ms starts the second
\* press and returns nothing; a later one returns Click, however short the
\* time since the release.
ThmC6 ==
  [][IsTickStep /\ state = 2 /\ level' = buttonPressed =>
       IF now' <= pressTime + clickTicks
         THEN state' = 3 /\ finalState' = 0
         ELSE state' = 0 /\ finalState' = CLICK_STATE]_vars

\* pressed@0, released@150, pressed@251: 101 ms after the release, and Click
WitC6 ==
  /\ pre = 2 /\ level = buttonPressed
  /\ clickTicks = 250
  /\ pressTime = 0 /\ releaseTime = 150 /\ now = 251
  /\ finalState = CLICK_STATE
  /\ state = 0

\* C7, as claimed: a tick calls only functions that the sketch attached, so a
\* slot that nothing was attached to calls nothing.
CexC7 ==
  \A i \in DOMAIN calls : calls[i][2] \in Functions

\* C8: _state is one of 0, 1, 2, 3, 6, whatever setters and attach calls come
\* between the ticks; it is 0 until a tick has returned an event; and from
\* every state a tick has an outcome for either level: a _state among the five
\* and one of the seven event codes.
ThmC8 ==
  /\ state \in States
  /\ finalState \in EventCodes
  /\ evlog = <<>> => state = 0
  /\ \A buttonLevel \in Levels, t \in {x \in CoarseTimes : x >= now} :
       LET r == tickBody(Self, buttonLevel, t)
       IN  r.state \in States /\ r.finalState \in EventCodes

\* a long press under a changed threshold and with a handler attached
WitC8 ==
  /\ state = 6
  /\ pressTicks = 100
  /\ longPressStartFunc = "f"
  /\ finalState = DURING_LONG_PRESS_STATE

\* C9: a step that changes a threshold or a handler slot changes no other
\* field of the object, and a step that changes _state, _startTime,
\* _isLongPressed or _lastActivityTime changes no threshold and no slot: it is
\* a tick.
ThmC9 ==
  [][/\ clickTicks' # clickTicks =>
          UNCHANGED <<state, startTime, isLongPressed, lastActivityTime,
                      buttonPressed, buttonReleased, pressTicks, clickFunc,
                      doubleClickFunc, pressFunc, longPressStartFunc,
                      longPressStopFunc, duringLongPressFunc>>
     /\ pressTicks' # pressTicks =>
          UNCHANGED <<state, startTime, isLongPressed, lastActivityTime,
                      buttonPressed, buttonReleased, clickTicks, clickFunc,
                      doubleClickFunc, pressFunc, longPressStartFunc,
                      longPressStopFunc, duringLongPressFunc>>
     /\ clickFunc' # clickFunc =>
          UNCHANGED <<state, startTime, isLongPressed, lastActivityTime,
                      buttonPressed, buttonReleased, clickTicks, pressTicks,
                      doubleClickFunc, pressFunc, longPressStartFunc,
                      longPressStopFunc, duringLongPressFunc>>
     /\ doubleClickFunc' # doubleClickFunc =>
          UNCHANGED <<state, startTime, isLongPressed, lastActivityTime,
                      buttonPressed, buttonReleased, clickTicks, pressTicks,
                      clickFunc, pressFunc, longPressStartFunc, longPressStopFunc,
                      duringLongPressFunc>>
     /\ pressFunc' # pressFunc =>
          UNCHANGED <<state, startTime, isLongPressed, lastActivityTime,
                      buttonPressed, buttonReleased, clickTicks, pressTicks,
                      clickFunc, doubleClickFunc, longPressStartFunc,
                      longPressStopFunc, duringLongPressFunc>>
     /\ longPressStartFunc' # longPressStartFunc =>
          UNCHANGED <<state, startTime, isLongPressed, lastActivityTime,
                      buttonPressed, buttonReleased, clickTicks, pressTicks,
                      clickFunc, doubleClickFunc, pressFunc, longPressStopFunc,
                      duringLongPressFunc>>
     /\ longPressStopFunc' # longPressStopFunc =>
          UNCHANGED <<state, startTime, isLongPressed, lastActivityTime,
                      buttonPressed, buttonReleased, clickTicks, pressTicks,
                      clickFunc, doubleClickFunc, pressFunc, longPressStartFunc,
                      duringLongPressFunc>>
     /\ duringLongPressFunc' # duringLongPressFunc =>
          UNCHANGED <<state, startTime, isLongPressed, lastActivityTime,
                      buttonPressed, buttonReleased, clickTicks, pressTicks,
                      clickFunc, doubleClickFunc, pressFunc, longPressStartFunc,
                      longPressStopFunc>>
     /\ ~UNCHANGED <<state, startTime, isLongPressed, lastActivityTime>> =>
          UNCHANGED config]_vars

\* a handler replaced, and a threshold set, while a click is being timed
WitC9 ==
  /\ state = 2
  /\ clickTicks = 600
  /\ clickFunc = "f"
  /\ doubleClickFunc = "f"
  /\ capClickTicks = 250

\* C10, as claimed: a timer in flight keeps the threshold it started with:
\* LongPressStart and Click are returned on the tick they would be returned on
\* had no setter been called since the press start.
CexC10 ==
  [][IsTickStep =>
       /\ state = 1 /\ level' = buttonPressed =>
            (finalState' = LONG_PRESS_START_STATE
               <=> now' > pressTime + capPressTicks)
       /\ state = 2 =>
            (finalState' = CLICK_STATE <=> now' > pressTime + capClickTicks)]_vars

\* C10, amended: a setter changes neither _startTime nor _state, and every
\* tick compares against the threshold current at that tick, also for the
\* press in flight when the setter was called: the tick that returns
\* LongPressStart or Click is the first one past t0 + the current threshold.
ThmC10 ==
  [][/\ IsTickStep /\ state = 1 /\ level' = buttonPressed
          /\ capPressTicks # pressTicks =>
            (finalState' = LONG_PRESS_START_STATE
               <=> now' > pressTime + pressTicks)
     /\ IsTickStep /\ state = 2 /\ capClickTicks # clickTicks =>
            (finalState' = CLICK_STATE <=> now' > pressTime + clickTicks)
     /\ ~IsTickStep => UNCHANGED <<state, startTime>>]_vars

\* the press started at 0 under a threshold of 100, setPressTicks(600) came
\* next, and the tick at 150 returned nothing
WitC10 ==
  /\ state = 1 /\ pre = 1 /\ level = buttonPressed
  /\ capPressTicks = 100 /\ pressTicks = 600
  /\ pressTime = 0 /\ now = 150
  /\ finalState = 0

\* C11: in _state 2 the timeout is looked at before the level: a tick past
\* t0 + click_window_ms returns Click and goes to Idle whether it samples
\* pressed or released; a pressed sample starts the second press only on a
\* tick that is not past it, and a released one then waits.
ThmC11 ==
  [][IsTickStep /\ state = 2 =>
       IF now' > pressTime + clickTicks
         THEN /\ finalState' = CLICK_STATE
              /\ state' = 0
              /\ level' \in {buttonPressed, buttonReleased}
         ELSE /\ finalState' = 0
              /\ level' = buttonPressed => state' = 3
              /\ level' = buttonReleased => state' = 2]_vars

\* released at 250, the last millisecond of the default window, and pressed
\* again at 251: the press and the timeout on the same tick, and Click
WitC11 ==
  /\ pre = 2 /\ level = buttonPressed
  /\ clickTicks = 250
  /\ pressTime = 0 /\ releaseTime = 250 /\ now = 251
  /\ finalState = CLICK_STATE
  /\ state = 0
  /\ evlog = <<PRESSED_STATE, CLICK_STATE>>

\* the handlers of slots, in that order, that are not NULL
Attached(slots) ==
  SelectSeq(slots, LAMBDA c : c[2] # NULL)

\* C12: the tick that moves _state from 1 to 6 returns LongPressStart and
\* calls the press, long-press-start and during-long-press handlers, in that
\* order, each once; no other tick calls the press or the long-press-start
\* handler.
ThmC12 ==
  [][IsTickStep =>
       /\ state = 1 /\ state' = 6 =>
            /\ finalState' = LONG_PRESS_START_STATE
            /\ calls' = Attached(<< <<"pressFunc", pressFunc>>,
                                    <<"longPressStartFunc", longPressStartFunc>>,
                                    <<"duringLongPressFunc", duringLongPressFunc>> >>)
       /\ ~(state = 1 /\ state' = 6) /\ ~UNCHANGED vars =>
            \A i \in DOMAIN calls' :
              calls'[i][1] \notin {"pressFunc", "longPressStartFunc"}]_vars

\* the three handlers attached, and the long press started
WitC12 ==
  /\ pre = 1 /\ state = 6
  /\ finalState = LONG_PRESS_START_STATE
  /\ calls = << <<"pressFunc", "f">>, <<"longPressStartFunc", "f">>,
                <<"duringLongPressFunc", "f">> >>

\* C13: in _state 0 a pressed sample stores the clock value in _startTime,
\* moves to _state 1 and returns Pressed, and a released sample returns
\* nothing and stays; no tick that finds another _state returns Pressed.
ThmC13 ==
  [][IsTickStep =>
       /\ state = 0 /\ level' = buttonPressed =>
            startTime' = now' /\ state' = 1 /\ finalState' = PRESSED_STATE
       /\ state = 0 /\ level' = buttonReleased =>
            state' = 0 /\ finalState' = 0 /\ startTime' = startTime
       /\ state # 0 => finalState' # PRESSED_STATE]_vars

\* a press that starts at 250, after an earlier one that started at 0
WitC13 ==
  /\ pre = 0 /\ level = buttonPressed
  /\ finalState = PRESSED_STATE
  /\ startTime = 250 /\ now = 250
  /\ lastActivityTime = 250
  /\ state = 1

\* the level that means pressed for the polarity given to the constructor
PressedLevel == IF activeLow THEN LOW ELSE HIGH

\* C14: activeLow makes LOW the pressed level and HIGH the released one and
\* turns the pull-up on, otherwise HIGH is pressed and LOW released;
\* isPressed() and isReleased() answer from the level of the pin alone,
\* whatever _state is, exactly one of them with true; and tick() reads the
\* level the same way.
ThmC14 ==
  [][/\ pullUp' = activeLow'
     /\ buttonPressed' = PressedLevel' /\ buttonReleased' # PressedLevel'
     /\ \A a \in answers' :
          a[3] = IF a[1] = "isPressed" THEN a[2] = PressedLevel'
                                       ELSE a[2] # PressedLevel'
     /\ IsTickStep /\ answers' = answers =>
          /\ state = 0 => (state' = 1 <=> level' = PressedLevel)
          /\ state = 1 => (state' = 2 <=> level' # PressedLevel)
          /\ state = 3 => (state' = 0 <=> level' # PressedLevel)
          /\ state = 6 => (state' = 0 <=> level' # PressedLevel)]_vars

\* an active-low button held down into a long press: LOW at the pin, for
\* which isPressed() said true and isReleased() false
WitC14 ==
  /\ activeLow /\ pullUp
  /\ level = LOW /\ state = 6
  /\ <<"isPressed", LOW, TRUE>> \in answers
  /\ <<"isReleased", LOW, FALSE>> \in answers
  /\ <<"isReleased", HIGH, TRUE>> \in answers

\* C15: _isLongPressed is true exactly while _state is 6, after the
\* constructor and after every tick, setter and attach call; it is false
\* until a tick has returned an event.
ThmC15 ==
  /\ isLongPressed <=> state = 6
  /\ evlog = <<>> => ~isLongPressed

\* the tick that started the long press has set the flag
WitC15 ==
  /\ isLongPressed /\ state = 6
  /\ pre = 1 /\ finalState = LONG_PRESS_START_STATE
  /\ evlog = <<PRESSED_STATE, LONG_PRESS_START_STATE>>

\* the slots a tick that returns fs calls through, in order
SlotsOf(fs) ==
  IF fs = CLICK_STATE THEN << <<"clickFunc", clickFunc>> >>
  ELSE IF fs = DOUBLE_CLICK_STATE THEN << <<"doubleClickFunc", doubleClickFunc>> >>
  ELSE IF fs = LONG_PRESS_STOP_STATE
    THEN << <<"longPressStopFunc", longPressStopFunc>> >>
  ELSE IF fs = DURING_LONG_PRESS_STATE
    THEN << <<"duringLongPressFunc", duringLongPressFunc>> >>
  ELSE IF fs = LONG_PRESS_START_STATE
    THEN << <<"pressFunc", pressFunc>>,
            <<"longPressStartFunc", longPressStartFunc>>,
            <<"duringLongPressFunc", duringLongPressFunc>> >>
  ELSE <<>>

\* C16: a tick returns one event code and calls through the slots of that
\* event and no other: the click slot on Click, the double-click slot on
\* DoubleClick, the long-press-stop slot on LongPressStop, the
\* during-long-press slot on LongPressStart and DuringLongPress, nothing on
\* None and Pressed; each slot that holds a function is called once.
ThmC16 ==
  [][IsTickStep /\ ~UNCHANGED vars =>
       /\ finalState' \in EventCodes
       /\ calls' = Attached(SlotsOf(finalState'))]_vars

\* a held long press with every slot attached: the tick returns
\* DuringLongPress and calls the during-long-press function alone
WitC16 ==
  /\ pre = 6 /\ state = 6
  /\ finalState = DURING_LONG_PRESS_STATE
  /\ clickFunc = "f" /\ doubleClickFunc = "f" /\ pressFunc = "f"
  /\ longPressStartFunc = "f" /\ longPressStopFunc = "f"
  /\ duringLongPressFunc = "f"
  /\ calls = << <<"duringLongPressFunc", "f">> >>

\* C17: _state 3 has no timer: a pressed sample returns nothing and stays in
\* _state 3 however long the second press is held, and a released sample
\* returns DoubleClick and goes back to _state 0.
ThmC17 ==
  [][IsTickStep /\ state = 3 =>
       IF level' = buttonPressed
         THEN /\ finalState' = 0 /\ state' = 3
              /\ ~isLongPressed' /\ calls' = <<>>
         ELSE /\ finalState' = DOUBLE_CLICK_STATE /\ state' = 0]_vars

\* the second press still held 750 ms after the first press started, past
\* both default thresholds, and nothing returned
WitC17 ==
  /\ pre = 3 /\ state = 3 /\ level = buttonPressed
  /\ clickTicks = 250 /\ pressTicks = 600
  /\ pressTime = 0 /\ now = 750
  /\ finalState = 0
  /\ evlog = <<PRESSED_STATE>>

\* the event sequences of one interaction, a run of DuringLongPress written
\* once
Interactions ==
  { <<PRESSED_STATE>>,
    <<PRESSED_STATE, CLICK_STATE>>,
    <<PRESSED_STATE, DOUBLE_CLICK_STATE>>,
    <<PRESSED_STATE, LONG_PRESS_START_STATE>>,
    <<PRESSED_STATE, LONG_PRESS_START_STATE, DURING_LONG_PRESS_STATE>>,
    <<PRESSED_STATE, LONG_PRESS_START_STATE, LONG_PRESS_STOP_STATE>>,
    <<PRESSED_STATE, LONG_PRESS_START_STATE, DURING_LONG_PRESS_STATE,
      LONG_PRESS_STOP_STATE>> }

\* C18: the events returned since the last Pressed are Pressed alone, or
\* Pressed with Click, with DoubleClick, or with LongPressStart, any number
\* of DuringLongPress and then LongPressStop; and Pressed is returned only
\* at the start or after an interaction that ended with Click, DoubleClick
\* or LongPressStop.
ThmC18 ==
  [][/\ evlog' \in Interactions \cup {<<>>}
     /\ IsTickStep /\ finalState' = PRESSED_STATE =>
          \/ evlog = <<>>
          \/ /\ evlog \in Interactions
             /\ evlog[Len(evlog)] \in {CLICK_STATE, DOUBLE_CLICK_STATE,
                                       LONG_PRESS_STOP_STATE}]_vars

\* a whole long press, and the machine back in _state 0
WitC18 ==
  /\ evlog = <<PRESSED_STATE, LONG_PRESS_START_STATE, DURING_LONG_PRESS_STATE,
               LONG_PRESS_STOP_STATE>>
  /\ finalState = LONG_PRESS_STOP_STATE
  /\ state = 0

\* the events of an interaction that has ended
Completed ==
  {e \in Interactions :
     e[Len(e)] \in {CLICK_STATE, DOUBLE_CLICK_STATE, LONG_PRESS_STOP_STATE}}

\* C19, as claimed: if from some tick on every sample is released, the
\* machine reaches _state 0 and stays there, the interaction that was in
\* progress ended by one Click, DoubleClick or LongPressStop.
CexC19 ==
  <>[](level = buttonReleased) =>
    <>[](state = 0 /\ evlog \in Completed \cup {<<>>})

\* milliseconds from the last Pressed to the last tick, modulo 2^w
Elapsed == (now - pressTime + ClockModulus) % ClockModulus

\* C20, as claimed: with the clock modulo 2^w, no tick returns
\* LongPressStart when at most _pressTicks milliseconds have passed since
\* the press started, and none returns Click when at most _clickTicks have,
\* wherever the press started.
CexC20 ==
  [][IsTickStep =>
       /\ finalState' = LONG_PRESS_START_STATE => Elapsed' > pressTicks'
       /\ finalState' = CLICK_STATE => Elapsed' > clickTicks']_vars
====
